---- MODULE Spec2Model ----
(***************************************************************************)
(* State-machine model of flaccid's FlacParser (src/flaccid/__init__.py).  *)
(*                                                                         *)
(* The byte source is a sequence of byte values 0..255 and the parser is   *)
(* FlacParser.__init__, cut into its steps: parse_magic, one iteration of  *)
(* the metadata block loop, the three get_metadata_block_with_type calls,  *)
(* the three dump_* calls, parse_frame_header and the final report.        *)
(*                                                                         *)
(* Structure layouts are those ctypes produces on a little-endian Linux    *)
(* host (CPython 3.11): sizeof(MetadataBlockHeader) = 4,                   *)
(* sizeof(MetadataBlockStreamInfo) = 36, sizeof(MetadataSeekPoint) = 18,   *)
(* sizeof(FrameHeaderRaw) = 4, c_uint32 little-endian.                     *)
(***************************************************************************)
EXTENDS Integers, Sequences, FiniteSets, TLC

VARIABLES
    flac,              \* self.flac: the bytes of the opened file
    cursor,            \* self.flac.tell()
    pc,                \* position inside FlacParser.__init__; it stays where an
                       \* exception was raised
    metadata_blocks,   \* self.metadata_blocks
    stream_info,       \* self.stream_info  (index into metadata_blocks, 0 = None)
    seek_table,        \* self.seek_table
    vorbis_comments,   \* self.vorbis_comments
    raw_header_bytes,  \* parse_frame_header's raw_header_bytes (<<>> before the read)
    frame_header,      \* frame_header of __init__ (NoFrame before line 138 returns)
    error,             \* the exception that ended __init__ ("none" while it runs)
    header_starts      \* history: tell() at the start of every parse_metadata_header

vars == <<flac, cursor, pc, metadata_blocks, stream_info, seek_table,
          vorbis_comments, raw_header_bytes, frame_header, error, header_starts>>

----------------------------------------------------------------------------
(* Bounds of the generated byte sources *)

MaxBlocks == 3

----------------------------------------------------------------------------
(* Sizes of the ctypes structures *)

HeaderSize == 4
StreamInfoSize == 36
SeekPointSize == 18
FrameHeaderSize == 4
Uint32Size == 4

Min(a, b) == IF a < b THEN a ELSE b

The(S) == CHOOSE x \in S : TRUE

\* LET x == value IN Body(x), with value computed once
Let(value, Body(_)) == The({ Body(x) : x \in {value} })

None == 0
NoFrame == [raw |-> <<>>]

----------------------------------------------------------------------------
(* The file object *)

\* file.read(n): the bytes from pos up to n bytes on, fewer at end of file
FileRead(src, pos, n) == SubSeq(src, pos + 1, Min(pos + n, Len(src)))

\* c_uint32 on a little-endian host, kept as two 16-bit halves
Uint32Value(b) == [lo |-> b[1] + 256 * b[2], hi |-> b[3] + 256 * b[4]]

\* min(n, k) for a c_uint32 n and a natural k below 65536
Uint32Min(n, k) == IF n.hi > 0 THEN k ELSE Min(n.lo, k)

\* i < n for a c_uint32 n and a natural i below 65536
Uint32Above(n, i) == n.hi > 0 \/ i < n.lo

\* variant: a short buffer is padded with zero bytes instead of rejected
ReadCtypeFromFilePadded(src, pos, size) ==
    Let(FileRead(src, pos, size), LAMBDA raw_bytes :
        [status |-> "ok",
         raw    |-> raw_bytes \o [i \in 1..(size - Len(raw_bytes)) |-> 0],
         pos    |-> pos + Len(raw_bytes)])

\* read_ctype_from_file: from_buffer raises ValueError on a short buffer
ReadCtypeFromFile(src, pos, size) ==
    Let(FileRead(src, pos, size), LAMBDA raw_bytes :
        [status |-> IF Len(raw_bytes) < size THEN "ValueError" ELSE "ok",
         raw    |-> raw_bytes,
         pos    |-> pos + Len(raw_bytes)])

----------------------------------------------------------------------------
(* bytes.decode('utf-8'): the code points, or UnicodeDecodeError *)

IsCont(b) == b >= 128 /\ b <= 191

Utf8SeqLen(b) ==
    IF b[1] < 128 THEN 1
    ELSE IF b[1] >= 194 /\ b[1] <= 223 /\ Len(b) >= 2 /\ IsCont(b[2]) THEN 2
    ELSE IF /\ b[1] >= 224 /\ b[1] <= 239 /\ Len(b) >= 3
            /\ IsCont(b[2]) /\ IsCont(b[3])
            /\ (b[1] = 224 => b[2] >= 160)
            /\ (b[1] = 237 => b[2] <= 159) THEN 3
    ELSE IF /\ b[1] >= 240 /\ b[1] <= 244 /\ Len(b) >= 4
            /\ IsCont(b[2]) /\ IsCont(b[3]) /\ IsCont(b[4])
            /\ (b[1] = 240 => b[2] >= 144)
            /\ (b[1] = 244 => b[2] <= 143) THEN 4
    ELSE 0

Utf8CodePoint(b, n) ==
    CASE n = 1 -> b[1]
      [] n = 2 -> (b[1] - 192) * 64 + (b[2] - 128)
      [] n = 3 -> (b[1] - 224) * 4096 + (b[2] - 128) * 64 + (b[3] - 128)
      [] n = 4 -> (b[1] - 240) * 262144 + (b[2] - 128) * 4096
                  + (b[3] - 128) * 64 + (b[4] - 128)

RECURSIVE Utf8Decode(_, _)
Utf8Decode(b, acc) ==
    IF b = <<>> THEN [status |-> "ok", text |-> acc]
    ELSE Let(Utf8SeqLen(b), LAMBDA n :
         IF n = 0 THEN [status |-> "UnicodeDecodeError", text |-> acc]
         ELSE Let(SubSeq(b, n + 1, Len(b)), LAMBDA rest :
              Let(Append(acc, Utf8CodePoint(b, n)), LAMBDA text :
                  Utf8Decode(rest, text))))

----------------------------------------------------------------------------
(* MetadataBlockHeader: 1 bit is_last_block, 7 bits block_type, 24 bits length *)

MetadataBlockHeader(b) ==
    [is_last_block |-> b[1] \div 128,
     block_type    |-> b[1] % 128,
     length        |-> b[2] * 65536 + b[3] * 256 + b[4]]

STREAMINFO == 0
PADDING == 1
SEEKTABLE == 3
VORBIS_COMMENT == 4

\* the values of the MetadataBlockType enum
MetadataBlockType == {0, 1, 2, 3, 4, 5, 6, 127}

\* parse_metadata_header
ParseMetadataHeader(src, pos) ==
    Let(ReadCtypeFromFile(src, pos, HeaderSize), LAMBDA r :
        [status |-> r.status,
         header |-> IF r.status = "ok" THEN MetadataBlockHeader(r.raw)
                    ELSE [is_last_block |-> 0, block_type |-> 0, length |-> 0],
         pos    |-> r.pos])

----------------------------------------------------------------------------
(* Payload decoders.  Each returns the status ("ok" or the exception      *)
(* raised), the decoded data and the file position it leaves behind.       *)

NoData == [kind |-> "none"]

\* seekpoint_count = int(header.length / 18)
SeekpointCount(header) == header.length \div SeekPointSize

RECURSIVE ReadSeekPoints(_, _, _, _)
ReadSeekPoints(src, pos, count, seekpoints) ==
    IF count = 0
    THEN [status |-> "ok", seek_points |-> seekpoints, pos |-> pos]
    ELSE Let(ReadCtypeFromFile(src, pos, SeekPointSize), LAMBDA r :
         IF r.status # "ok"
         THEN [status |-> r.status, seek_points |-> seekpoints, pos |-> r.pos]
         ELSE Let(Append(seekpoints, r.raw), LAMBDA read :
                  ReadSeekPoints(src, r.pos, count - 1, read)))

\* parse_seektable
ParseSeektable(src, pos, header) ==
    Let(ReadSeekPoints(src, pos, SeekpointCount(header), <<>>), LAMBDA r :
        [status |-> r.status,
         data   |-> IF r.status = "ok"
                    THEN [kind |-> "SeekTable", seek_points |-> r.seek_points]
                    ELSE NoData,
         pos    |-> r.pos])

\* a length-prefixed string: c_uint32 length, then read(length).decode('utf-8')
ReadString(src, pos) ==
    Let(ReadCtypeFromFile(src, pos, Uint32Size), LAMBDA r :
        IF r.status # "ok"
        THEN [status |-> r.status, text |-> <<>>, pos |-> r.pos]
        ELSE Let(FileRead(src, r.pos, Uint32Min(Uint32Value(r.raw), Len(src))),
                 LAMBDA bytes :
             Let(Utf8Decode(bytes, <<>>), LAMBDA d :
                 [status |-> d.status, text |-> d.text, pos |-> r.pos + Len(bytes)])))

\* the loop of parse_vorbis_comment: for i in range(user_comment_list_len)
RECURSIVE ReadUserComments(_, _, _, _, _)
ReadUserComments(src, pos, list_len, i, user_comments) ==
    IF ~Uint32Above(list_len, i)
    THEN [status |-> "ok", user_comments |-> user_comments, pos |-> pos]
    ELSE Let(ReadString(src, pos), LAMBDA r :
         IF r.status # "ok"
         THEN [status |-> r.status, user_comments |-> user_comments, pos |-> r.pos]
         ELSE Let(Append(user_comments, r.text), LAMBDA read :
                  ReadUserComments(src, r.pos, list_len, i + 1, read)))

\* parse_vorbis_comment
ParseVorbisComment(src, pos, header) ==
    Let(ReadString(src, pos), LAMBDA v :
        IF v.status # "ok" THEN [status |-> v.status, data |-> NoData, pos |-> v.pos]
        ELSE
        Let(ReadCtypeFromFile(src, v.pos, Uint32Size), LAMBDA c :
            IF c.status # "ok" THEN [status |-> c.status, data |-> NoData, pos |-> c.pos]
            ELSE
            Let(ReadUserComments(src, c.pos, Uint32Value(c.raw), 0, <<>>), LAMBDA u :
                [status |-> u.status,
                 data   |-> IF u.status = "ok"
                            THEN [kind |-> "VorbisComment",
                                  vendor_string |-> v.text,
                                  user_comments |-> u.user_comments]
                            ELSE NoData,
                 pos    |-> u.pos])))

\* parse_padding: reads nothing
ParsePadding(src, pos, header) ==
    [status |-> "ok",
     data   |-> [kind |-> "Padding", length |-> header.length],
     pos    |-> pos]

\* the STREAMINFO branch: read_ctype_from_file(MetadataBlockStreamInfo)
ParseStreamInfo(src, pos, header) ==
    Let(ReadCtypeFromFile(src, pos, StreamInfoSize), LAMBDA r :
        [status |-> r.status,
         data   |-> IF r.status = "ok"
                    THEN [kind |-> "StreamInfo", raw |-> r.raw]
                    ELSE NoData,
         pos    |-> r.pos])

\* parse_data_for_metadata_header
ParseDataForMetadataHeader(src, pos, header) ==
    IF header.block_type = STREAMINFO THEN ParseStreamInfo(src, pos, header)
    ELSE IF header.block_type = SEEKTABLE THEN ParseSeektable(src, pos, header)
    ELSE IF header.block_type = VORBIS_COMMENT THEN ParseVorbisComment(src, pos, header)
    ELSE IF header.block_type = PADDING THEN ParsePadding(src, pos, header)
    ELSE [status |-> "NotImplementedError", data |-> NoData, pos |-> pos]

\* variant: block_end taken from the position before the header was read
BlockEndFromHeaderStart(tell, header) == tell - HeaderSize + header.length

\* block_end = self.flac.tell() + header.length
BlockEnd(tell, header) == tell + header.length

\* variant: the seek is left out
SeekSkipped(pos, block_end) == pos

\* self.flac.seek(block_end)
Seek(pos, block_end) == block_end

\* parse_metadata_block
ParseMetadataBlock(src, pos) ==
    Let(ParseMetadataHeader(src, pos), LAMBDA h :
        IF h.status # "ok"
        THEN [status |-> h.status, header |-> h.header, data |-> NoData, pos |-> h.pos]
        ELSE IF h.header.block_type \notin MetadataBlockType
        THEN \* MetadataBlockType(header.block_type) of the print raises ValueError
             [status |-> "ValueError", header |-> h.header, data |-> NoData, pos |-> h.pos]
        ELSE Let(ParseDataForMetadataHeader(src, h.pos, h.header), LAMBDA d :
                 [status |-> d.status,
                  header |-> h.header,
                  data   |-> d.data,
                  pos    |-> IF d.status = "ok"
                             THEN Seek(d.pos, BlockEnd(h.pos, h.header))
                             ELSE d.pos]))

\* get_metadata_block_with_type: the first block of that type, or None
RECURSIVE ScanBlocks(_, _, _)
ScanBlocks(blocks, block_type, i) ==
    IF i > Len(blocks) THEN None
    ELSE IF blocks[i].header.block_type = block_type THEN i
    ELSE ScanBlocks(blocks, block_type, i + 1)

\* variant: the last block of that type wins
RECURSIVE ScanBlocksBackward(_, _, _)
ScanBlocksBackward(blocks, block_type, i) ==
    IF i < 1 THEN None
    ELSE IF blocks[i].header.block_type = block_type THEN i
    ELSE ScanBlocksBackward(blocks, block_type, i - 1)

GetLastMetadataBlockWithType(blocks, block_type) ==
    ScanBlocksBackward(blocks, block_type, Len(blocks))

GetMetadataBlockWithType(blocks, block_type) == ScanBlocks(blocks, block_type, 1)

----------------------------------------------------------------------------
(* FrameHeaderRaw: 14 bits sync_code, reserved1, blocking_strategy, 4 bits *)
(* block_size, 4 bits sample_rate, 4 bits channel, 3 bits sample_size,     *)
(* reserved2                                                               *)

SYNC_CODE == 16382

\* variant: reserved1 and blocking_strategy in each other's place
FrameHeaderRawSwapped(b) ==
    [raw               |-> b,
     sync_code         |-> b[1] * 64 + b[2] \div 4,
     reserved1         |-> b[2] % 2,
     blocking_strategy |-> (b[2] \div 2) % 2,
     block_size        |-> b[3] \div 16,
     sample_rate       |-> b[3] % 16,
     channel           |-> b[4] \div 16,
     sample_size       |-> (b[4] \div 2) % 8,
     reserved2         |-> b[4] % 2]

FrameHeaderRaw(b) ==
    [raw               |-> b,
     sync_code         |-> b[1] * 64 + b[2] \div 4,
     reserved1         |-> (b[2] \div 2) % 2,
     blocking_strategy |-> b[2] % 2,
     block_size        |-> b[3] \div 16,
     sample_rate       |-> b[3] % 16,
     channel           |-> b[4] \div 16,
     sample_size       |-> (b[4] \div 2) % 8,
     reserved2         |-> b[4] % 2]

\* FrameHeader.validate_header
ValidateHeader(raw_header) ==
    IF raw_header.reserved1 # 0 THEN "RuntimeError: reserved1 was not 0"
    ELSE IF raw_header.reserved2 # 0 THEN "RuntimeError: reserved2 was not 0"
    ELSE "ok"

\* parse_frame_header, after the read of line 150
ParseFrameHeaderBytes(bytes) ==
    IF Len(bytes) < FrameHeaderSize
    THEN [status |-> "ValueError", frame |-> NoFrame]
    ELSE Let(FrameHeaderRaw(bytes), LAMBDA raw_header :
         IF raw_header.sync_code # SYNC_CODE
         THEN [status |-> "RuntimeError: sync code was incorrect", frame |-> NoFrame]
         ELSE Let(ValidateHeader(raw_header), LAMBDA v :
                  [status |-> v,
                   frame  |-> IF v = "ok" THEN raw_header ELSE NoFrame]))

----------------------------------------------------------------------------
(* The byte sources the parser is run on: a signature, up to MaxBlocks     *)
(* metadata blocks, then the first bytes of the frame stream.              *)

Zeros(n) == [i \in 1..n |-> 0]

HeaderBytes(is_last, block_type, length) ==
    <<is_last * 128 + block_type, length \div 65536,
      (length \div 256) % 256, length % 256>>

\* vendor_len = 1, "a", comment_count = 1, len = 1, "b"
VorbisPayload == <<1, 0, 0, 0, 97, 1, 0, 0, 0, 1, 0, 0, 0, 98>>

\* <<block_type, header length, payload bytes>>
BlockShapes ==
    { <<0, 34, Zeros(34)>>,            \* StreamInfo
      <<1, 2, Zeros(2)>>,              \* Padding
      <<3, 18, Zeros(18)>>,            \* SeekTable of one point
      <<3, 19, Zeros(19)>>,            \* SeekTable, length not a multiple of 18
      <<4, 14, VorbisPayload>>,        \* VorbisComment, exact length
      <<4, 4, VorbisPayload>>,         \* VorbisComment reading past its length
      <<2, 0, <<>>>>,                  \* Application: no decoder
      <<10, 0, <<>>>> }                \* reserved type code

BlockBytes == { HeaderBytes(l, b[1], b[2]) \o b[3] : l \in {0, 1}, b \in BlockShapes }

RECURSIVE Concat(_)
Concat(ss) == IF ss = <<>> THEN <<>> ELSE Head(ss) \o Concat(Tail(ss))

BlockLists(max) == UNION { [1..n -> BlockBytes] : n \in 0..max }

\* correct_magic = b'fLaC'
correct_magic == <<102, 76, 97, 67>>

BadMagics == { <<102, 108, 97, 99>>,   \* "flac"
               <<102, 76>> }           \* truncated

FrameStreams == { <<255, 248, 0, 0>>,  \* fixed blocking
                  <<255, 249, 0, 0>>,  \* variable blocking
                  <<255, 250, 0, 0>>,  \* reserved1 set
                  <<255, 248, 0, 1>>,  \* reserved2 set
                  <<127, 248, 0, 0>>,  \* wrong sync code
                  <<>> }               \* no frame stream

Sources ==
    { correct_magic \o Concat(bl) \o f : bl \in BlockLists(MaxBlocks), f \in FrameStreams }
    \cup { m \o Concat(bl) \o <<255, 248, 0, 0>> : m \in BadMagics, bl \in BlockLists(1) }

----------------------------------------------------------------------------
(* The script body (lines 270-272) and FlacParser.__init__ *)

Init ==
    /\ flac = <<>>
    /\ cursor = 0
    /\ pc = "open"
    /\ metadata_blocks = <<>>
    /\ stream_info = None
    /\ seek_table = None
    /\ vorbis_comments = None
    /\ raw_header_bytes = <<>>
    /\ frame_header = NoFrame
    /\ error = "none"
    /\ header_starts = <<>>

\* with open(file, 'rb') as flac_file: parser = FlacParser(flac_file)
Open ==
    /\ pc = "open" /\ error = "none"
    /\ flac' \in Sources
    /\ pc' = "magic"
    /\ UNCHANGED <<cursor, metadata_blocks, stream_info, seek_table, vorbis_comments,
                   raw_header_bytes, frame_header, error, header_starts>>

\* parse_magic: reads 4 bytes, reports every wrong byte, never raises
ParseMagic ==
    /\ pc = "magic" /\ error = "none"
    /\ cursor' = cursor + Len(FileRead(flac, cursor, Len(correct_magic)))
    /\ pc' = "blocks"
    /\ UNCHANGED <<flac, metadata_blocks, stream_info, seek_table, vorbis_comments,
                   raw_header_bytes, frame_header, error, header_starts>>

\* variant: the last-flag is not looked at
LoopAfterIgnoringLast(header) == "blocks"

\* if metadata_block.header.is_last_block: break
LoopAfter(header) == IF header.is_last_block # 0 THEN "locate" ELSE "blocks"

\* one iteration of the while loop of __init__
ParseBlock ==
    /\ pc = "blocks" /\ error = "none"
    /\ Len(metadata_blocks) * HeaderSize < Len(flac)  \* every block took a whole header
    /\ \E b \in {ParseMetadataBlock(flac, cursor)} :
           /\ cursor' = b.pos
           /\ header_starts' = Append(header_starts, cursor)
           /\ IF b.status = "ok"
              THEN /\ metadata_blocks' =
                         Append(metadata_blocks, [header |-> b.header, data |-> b.data])
                   /\ pc' = LoopAfter(b.header)
                   /\ error' = error
              ELSE IF b.status = "NotImplementedError"
              THEN /\ pc' = "locate"
                   /\ UNCHANGED <<metadata_blocks, error>>
              ELSE /\ error' = b.status
                   /\ UNCHANGED <<pc, metadata_blocks>>
    /\ UNCHANGED <<flac, stream_info, seek_table, vorbis_comments,
                   raw_header_bytes, frame_header>>

\* lines 128-132
LocateBlocks ==
    /\ pc = "locate" /\ error = "none"
    /\ stream_info' = GetMetadataBlockWithType(metadata_blocks, STREAMINFO)
    /\ seek_table' = GetMetadataBlockWithType(metadata_blocks, SEEKTABLE)
    /\ vorbis_comments' = GetMetadataBlockWithType(metadata_blocks, VORBIS_COMMENT)
    /\ pc' = "dump"
    /\ UNCHANGED <<flac, cursor, metadata_blocks, raw_header_bytes, frame_header,
                   error, header_starts>>

\* dump_stream_info, dump_seek_table, dump_vorbis_comments: each reads
\* .data of its block and raises AttributeError when the block is None
DumpBlocks ==
    /\ pc = "dump" /\ error = "none"
    /\ IF stream_info = None \/ seek_table = None \/ vorbis_comments = None
       THEN pc' = pc /\ error' = "AttributeError"
       ELSE pc' = "frame" /\ error' = error
    /\ UNCHANGED <<flac, cursor, metadata_blocks, stream_info, seek_table,
                   vorbis_comments, raw_header_bytes, frame_header, header_starts>>

\* frame_header = self.parse_frame_header()
ParseFrameHeader ==
    /\ pc = "frame" /\ error = "none"
    /\ \E bytes \in {FileRead(flac, cursor, FrameHeaderSize)} :
       \E r \in {ParseFrameHeaderBytes(bytes)} :
           /\ raw_header_bytes' = bytes
           /\ cursor' = cursor + Len(bytes)
           /\ frame_header' = r.frame
           /\ IF r.status = "ok"
              THEN pc' = "report" /\ error' = error
              ELSE pc' = pc /\ error' = r.status
    /\ UNCHANGED <<flac, metadata_blocks, stream_info, seek_table, vorbis_comments,
                   header_starts>>

\* line 139: frame_header.blocking_strategy is not an attribute of FrameHeader
ReportFrameHeader ==
    /\ pc = "report" /\ error = "none"
    /\ error' = "AttributeError"
    /\ UNCHANGED <<flac, cursor, pc, metadata_blocks, stream_info, seek_table,
                   vorbis_comments, raw_header_bytes, frame_header, header_starts>>

Next ==
    \/ Open
    \/ ParseMagic
    \/ ParseBlock
    \/ LocateBlocks
    \/ DumpBlocks
    \/ ParseFrameHeader
    \/ ReportFrameHeader

Spec == Init /\ [][Next]_vars

\* __init__ is one synchronous call: it keeps running until it returns or raises
FairSpec == Init /\ [][Next]_vars /\ WF_vars(Next)

----------------------------------------------------------------------------
(* Properties *)

\* the bytes of the header that parse_metadata_header would read next
NextHeaderBytes == FileRead(flac, cursor, HeaderSize)

\* the type codes that have a payload decoder
DecodedTypes == {STREAMINFO, PADDING, SEEKTABLE, VORBIS_COMMENT}

BlockType(i) == metadata_blocks[i].header.block_type
IsLast(i) == metadata_blocks[i].header.is_last_block # 0

\* the three references are set: __init__ is past line 132
Located == pc \in {"dump", "frame", "report"}

\* C1: a source whose first 4 bytes are not 'fLaC' makes the parse fail
\* before any block header is read: the parser never goes on to the block
\* loop, no header read is recorded and the block list stays empty.
C1_BadMagicAborts ==
    (pc # "open" /\ FileRead(flac, 0, 4) # correct_magic) =>
        /\ pc = "magic"
        /\ header_starts = <<>>
        /\ metadata_blocks = <<>>

\* C2: when the next header carries a type code without a payload decoder,
\* the loop iteration appends nothing and the parse goes on to the steps
\* after the loop without an exception.
C2_UnsupportedTypeHaltsLoop ==
    [][(/\ pc = "blocks" /\ error = "none"
        /\ Len(NextHeaderBytes) = HeaderSize
        /\ MetadataBlockHeader(NextHeaderBytes).block_type \notin DecodedTypes)
       => (/\ pc' = "locate"
           /\ error' = "none"
           /\ metadata_blocks' = metadata_blocks)]_vars

\* C3: no SeekTable is ever produced from a header whose length is not a
\* multiple of 18.
C3_NoPartialSeekTable ==
    \A i \in 1..Len(metadata_blocks) :
        metadata_blocks[i].data.kind = "SeekTable"
            => metadata_blocks[i].header.length % 18 = 0

\* C4: after every appended block the cursor is header_start + 4 + length
\* of that block: the next header starts there, and while no later read has
\* happened the cursor is there.
C4_CursorResynchronized ==
    \A i \in 1..Len(metadata_blocks) :
        LET block_end == header_starts[i] + 4 + metadata_blocks[i].header.length
        IN  IF i < Len(header_starts)
            THEN header_starts[i + 1] = block_end
            ELSE (pc \in {"blocks", "locate", "dump"} \/ (pc = "frame" /\ error = "none"))
                     => cursor = block_end

\* a Padding block (decoder reads nothing of its 2 bytes) and a
\* VorbisComment block whose decoder read past its 4-byte length were appended
C4_Witness ==
    /\ error = "none"
    /\ \E i \in 1..Len(metadata_blocks) :
           /\ metadata_blocks[i].data.kind = "Padding"
           /\ metadata_blocks[i].header.length > 0
    /\ \E j \in 1..Len(metadata_blocks) :
           /\ metadata_blocks[j].data.kind = "VorbisComment"
           /\ metadata_blocks[j].header.length
                  < 8 + Len(metadata_blocks[j].data.vendor_string)

\* signature, one last StreamInfo block of 34 bytes, a valid frame header
MinimalContainer ==
    correct_magic \o HeaderBytes(1, 0, 34) \o Zeros(34) \o <<255, 248, 0, 0>>

\* C5: the parse of a minimal valid container raises nothing.
C5_MinimalContainerParses == flac = MinimalContainer => error = "none"

ReservedBitErrors == {"RuntimeError: reserved1 was not 0", "RuntimeError: reserved2 was not 0"}

FrameRead == Len(raw_header_bytes) = FrameHeaderSize /\ raw_header_bytes[1] = 255

\* C6 as stated: a frame header 0xFF 0xF8 with reserved2 = 0 validates, and
\* a frame header 0xFF 0xF9 is rejected with a reserved-bit error.
C6_AsStated ==
    FrameRead =>
        /\ (raw_header_bytes[2] = 248 /\ raw_header_bytes[4] % 2 = 0)
               => frame_header # NoFrame
        /\ raw_header_bytes[2] = 249
               => (frame_header = NoFrame /\ error \in ReservedBitErrors)

\* C6 amended: frame headers 0xFF 0xF8 and 0xFF 0xF9 with reserved2 = 0 both
\* validate (0xF9 sets blocking_strategy, not reserved1); a frame header
\* 0xFF 0xFA is the one rejected with the reserved1 error.
C6_FrameHeaderValidation ==
    FrameRead =>
        /\ (raw_header_bytes[2] \in {248, 249} /\ raw_header_bytes[4] % 2 = 0)
               => /\ frame_header # NoFrame
                  /\ frame_header.reserved1 = 0
                  /\ frame_header.blocking_strategy = raw_header_bytes[2] - 248
        /\ raw_header_bytes[2] = 250
               => /\ frame_header = NoFrame
                  /\ error = "RuntimeError: reserved1 was not 0"

\* a frame header 0xFF 0xF9 was read and validated
C6_Witness ==
    /\ raw_header_bytes = <<255, 249, 0, 0>>
    /\ frame_header # NoFrame

\* C7: only the final block of the list can carry the last-flag, and once
\* it is appended the loop is over and no further header has been read.
C7_StopsAtLastFlag ==
    /\ \A i \in 1..Len(metadata_blocks) : IsLast(i) => i = Len(metadata_blocks)
    /\ (metadata_blocks # <<>> /\ IsLast(Len(metadata_blocks)))
           => /\ pc # "blocks"
              /\ Len(header_starts) = Len(metadata_blocks)

\* the loop stopped at a last-flagged second block although the file goes
\* on with another block and a frame header
C7_Witness ==
    /\ pc = "locate"
    /\ Len(metadata_blocks) = 2
    /\ IsLast(2)
    /\ Len(flac) >= cursor + HeaderSize + FrameHeaderSize

\* the reference ref is the earliest block of block_type, None iff there is none
FirstOfType(ref, block_type) ==
    /\ ref = None <=> \A i \in 1..Len(metadata_blocks) : BlockType(i) # block_type
    /\ ref # None =>
           /\ ref \in 1..Len(metadata_blocks)
           /\ BlockType(ref) = block_type
           /\ \A i \in 1..(ref - 1) : BlockType(i) # block_type

\* C8: after the loop each convenience reference is the first block of its
\* type and is absent exactly when the list has no such block.
C8_FirstMatchWins ==
    Located =>
        /\ FirstOfType(stream_info, STREAMINFO)
        /\ FirstOfType(seek_table, SEEKTABLE)
        /\ FirstOfType(vorbis_comments, VORBIS_COMMENT)

\* two SeekTable blocks, the reference is the first; no StreamInfo at all
C8_Witness ==
    /\ Located
    /\ \E i, j \in 1..Len(metadata_blocks) :
           /\ i < j
           /\ BlockType(i) = SEEKTABLE
           /\ BlockType(j) = SEEKTABLE
           /\ seek_table = i
    /\ stream_info = None

\* C9: every block header starts at or after the end of the previous
\* header, hence strictly after the previous header's start, and the cursor
\* is never before the end of a header that was read in full.
C9_HeaderStartsIncrease ==
    /\ \A i \in 1..(Len(header_starts) - 1) :
           header_starts[i + 1] >= header_starts[i] + HeaderSize
    /\ \A i \in 1..Len(metadata_blocks) : cursor >= header_starts[i] + HeaderSize

\* a VorbisComment decoder read 14 bytes of a block of length 4, and the
\* next header was read after the seek back
C9_Witness ==
    /\ Len(header_starts) >= 2
    /\ metadata_blocks # <<>>
    /\ metadata_blocks[1].data.kind = "VorbisComment"
    /\ metadata_blocks[1].header.length
           < 8 + Len(metadata_blocks[1].data.vendor_string)

\* C10: every parse ends, by returning or by raising.  (No run of __init__
\* reaches its return: line 139 raises once the frame header is validated.)
C10_ParseEnds == <>(pc = "returned" \/ error # "none")

\* the loop ran out of bytes: blocks without last-flag were appended and the
\* next header read found fewer than 4 bytes
C10_Witness ==
    /\ pc = "blocks"
    /\ error = "ValueError"
    /\ Len(metadata_blocks) >= 2
    /\ \A i \in 1..Len(metadata_blocks) : ~IsLast(i)
    /\ Len(header_starts) = Len(metadata_blocks) + 1
    /\ header_starts[Len(header_starts)] + HeaderSize > Len(flac)

====
